---- MODULE Spec2Model ----
(***************************************************************************)
(* A model of the launcher's search cache (src/src/backend.rs), of the     *)
(* three threads of src/src/main.rs that share it, and of the merging      *)
(* worker of src/bench/searching.rs.                                       *)
(*                                                                         *)
(* Strings are sequences of one-character strings, so that trimming,       *)
(* prefix tests, splitting and path arithmetic are computed as the code    *)
(* computes them.                                                          *)
(***************************************************************************)
EXTENDS Naturals, Integers, Sequences, FiniteSets, TLC

\* ------------------------------------------------------------ bounds
\* Longest query text the user types in the model.
MaxQueryLen == 2
\* Most query strings in flight in the query channel (mpsc, unbounded in the code).
MaxQueue == 1
\* Resolution threads alive at once (thread::spawn, unbounded in the code).
MaxTasks == 2
\* Stored deltas the history variable keeps before it stops recording.
MaxHistory == 2
\* Most directories in the app_locations of a sampled configuration.
MaxLocations == 3
\* Largest results_len of a sampled configuration.
MaxResultsLen == 2

\* ------------------------------------------------------------ strings
SP == " "

IsWhitespace(c) == c = SP

\* str::trim_start
RECURSIVE TrimStart(_)
TrimStart(s) ==
    IF s = << >> THEN << >>
    ELSE IF IsWhitespace(Head(s)) THEN TrimStart(Tail(s)) ELSE s

\* str::trim_end
RECURSIVE TrimEnd(_)
TrimEnd(s) ==
    IF s = << >> THEN << >>
    ELSE IF IsWhitespace(s[Len(s)]) THEN TrimEnd(SubSeq(s, 1, Len(s) - 1)) ELSE s

\* str::trim
Trim(s) == TrimEnd(TrimStart(s))

\* str::starts_with
StartsWith(s, p) == Len(p) <= Len(s) /\ SubSeq(s, 1, Len(p)) = p

\* Index of the first occurrence of character c in s, 0 when there is none.
FirstIndex(s, c) ==
    IF \E i \in 1..Len(s) : s[i] = c
    THEN CHOOSE i \in 1..Len(s) : s[i] = c /\ \A j \in 1..(i - 1) : s[j] # c
    ELSE 0

\* Index of the last occurrence of character c in s, 0 when there is none.
LastIndex(s, c) ==
    IF \E i \in 1..Len(s) : s[i] = c
    THEN CHOOSE i \in 1..Len(s) : s[i] = c /\ \A j \in (i + 1)..Len(s) : s[j] # c
    ELSE 0

\* ------------------------------------------------------------ paths
SLASH == "/"

Root == <<"/">>

\* Path::parent, as a string; "" when the path has no parent.
ParentPath(p) ==
    LET i == LastIndex(p, SLASH) IN
    IF p = Root \/ p = << >> \/ i = 0 THEN << >>
    ELSE IF i = 1 THEN Root
    ELSE SubSeq(p, 1, i - 1)

\* Path::file_name, as a string; "" stands for None.
FileName(p) ==
    LET i == LastIndex(p, SLASH) IN
    IF p = Root \/ p = << >> THEN << >>
    ELSE SubSeq(p, i + 1, Len(p))

\* ------------------------------------------------------------ environment
\* $HOME
HOME_PATH == <<"/", "h">>

\* $HOME/.config/launcher/launcher.toml, shortened.
CONFIG_PATH == HOME_PATH \o <<"/", "c">>

\* $PATH, split at ':'.
ENV_PATH == << <<"/", "b">> >>

\* The file system the program runs on: each readable directory and the names
\* fs::read_dir lists in it.
FsDirs ==
    [d \in { <<"/", "A">>, <<"/", "b">>, <<"/", "h">>, <<"/", "D">> } |->
        IF d = <<"/", "A">> THEN { <<"a", "b">> }
        ELSE IF d = <<"/", "b">> THEN { <<"a">> }
        ELSE IF d = <<"/", "h">> THEN { <<"c">> }
        ELSE { <<".", "d">>, <<"e", ".", "f">> }]

\* The working directory of the process.
Cwd == HOME_PATH

\* fs::read_dir(location).is_ok()
Readable(location) == location \in DOMAIN FsDirs

\* PathBuf of a directory's child.
JoinPath(dir, name) == IF dir = Root THEN dir \o name ELSE dir \o <<SLASH>> \o name

\* Every path that exists.
FsPaths ==
    {Root} \cup DOMAIN FsDirs
        \cup UNION { { JoinPath(d, n) : n \in FsDirs[d] } : d \in DOMAIN FsDirs }

\* The path with every run of '/' taken as one '/', as path resolution takes it.
RECURSIVE CollapseSlashes(_)
CollapseSlashes(p) ==
    IF Len(p) < 2 THEN p
    ELSE IF p[1] = SLASH /\ p[2] = SLASH THEN CollapseSlashes(Tail(p))
    ELSE <<p[1]>> \o CollapseSlashes(Tail(p))

\* Path::exists: a relative path is resolved against the working directory; a
\* trailing '/' is accepted after a directory only.
PathExists(p) ==
    IF p = << >> THEN FALSE
    ELSE LET full == CollapseSlashes(IF Head(p) = SLASH THEN p
                                     ELSE Cwd \o <<SLASH>> \o p)
             n == Len(full)
         IN  \/ full \in FsPaths
             \/ n > 1 /\ full[n] = SLASH /\ SubSeq(full, 1, n - 1) \in DOMAIN FsDirs

\* The names a DNS server knows.  dns_lookup::lookup_host of such a name answers
\* Ok or, when the server is not reached in time, Err; of any other name, Err.
DnsNames == { <<"a", "a">>, <<"c">>, [i \in 1..15 |-> "a"] }

\* The answers lookup_host(query).is_ok() may give.
LookupHost(q) == IF q \in DnsNames THEN BOOLEAN ELSE {FALSE}

\* ------------------------------------------------------------ Config
\* Config::from_file: the configuration the run was started with.
Config ==
    [app_locations |-> << <<"/", "A">>, <<"/", "S">> >>,
     editor |-> <<"h", "x">>,
     results_len |-> 2,
     fuzzy_engine |-> "skim"]

\* ------------------------------------------------------------ LauncherResult
Command(cmd, param) == [tag |-> "Command", a |-> cmd, b |-> param]
Url(u) == [tag |-> "Url", a |-> u, b |-> << >>]
AppResult(p) == [tag |-> "App", a |-> p, b |-> << >>]
BinResult(p) == [tag |-> "Bin", a |-> p, b |-> << >>]
FileResult(p) == [tag |-> "File", a |-> p, b |-> << >>]

\* ------------------------------------------------------------ Cache
FileEntry(type, path, name) == [file_type |-> type, full_path |-> path, name |-> name]

EmptyMap == [q \in {} |-> << >>]

\* Cache::new
CacheNew == [file_entries |-> {}, search_results |-> EmptyMap]

\* HashMap::insert: an existing key is overwritten.
MapInsert(m, k, v) == [x \in DOMAIN m \cup {k} |-> IF x = k THEN v ELSE m[x]]

\* Cache::parent_entry
ParentEntry(location) ==
    LET parent == ParentPath(location)
        full_path == IF parent # Root THEN parent \o <<SLASH>> ELSE parent
        fname == FileName(parent)
        name == IF fname # << >> THEN fname \o <<SLASH>> ELSE Root
    IN FileEntry("File", full_path, name)

\* Cache::add_dir for one location: what it inserts into file_entries.
AddDirOne(location, type) ==
    IF Readable(location)
    THEN {ParentEntry(location)}
            \cup { FileEntry(type, JoinPath(location, n), n) : n \in FsDirs[location] }
    ELSE {}

\* add_dir with an insert that removes an entry the store already holds.
AddDirToggling(cache, locations, type) ==
    LET found == UNION { AddDirOne(locations[i], type) : i \in 1..Len(locations) } IN
    [cache EXCEPT !.file_entries = (@ \ found) \cup (found \ @)]

\* Cache::add_dir
AddDir(cache, locations, type) ==
    [cache EXCEPT !.file_entries =
        @ \cup UNION { AddDirOne(locations[i], type) : i \in 1..Len(locations) }]

\* Cache::init
CacheInit(config) ==
    AddDir(AddDir(AddDir(CacheNew, config.app_locations, "App"), ENV_PATH, "Bin"),
           << HOME_PATH >>, "File")

\* Cache::get_results: << >> of length 0 stands for None, <<list>> for Some(list).
GetResults(cache, query) ==
    IF query \in DOMAIN cache.search_results
    THEN << cache.search_results[query] >>
    ELSE << >>

\* Cache::add_results
AddResults(cache, query, results) ==
    [cache EXCEPT !.search_results = MapInsert(@, query, results)]

\* ------------------------------------------------------------ ranking
\* Whether q is a subsequence of name: the entries SkimMatcherV2::fuzzy_indices
\* gives Some for.
RECURSIVE IsSubseq(_, _)
IsSubseq(q, name) ==
    IF q = << >> THEN TRUE
    ELSE IF name = << >> THEN FALSE
    ELSE IF Head(q) = Head(name) THEN IsSubseq(Tail(q), Tail(name))
    ELSE IsSubseq(q, Tail(name))

\* The score SkimMatcherV2 gives a matching name: a match at the start of the
\* name scores above a match further in.
SkimScore(name, query) == IF StartsWith(name, query) THEN 20 ELSE 10

\* The skim branch's filter_map: << >> for None, else <<(score, coverage, entry)>>.
SkimEntry(x, query) ==
    IF IsSubseq(query, x.name)
    THEN << [score |-> SkimScore(x.name, query),
             coverage |-> (Len(query) * 1024) \div Len(x.name),
             entry |-> x] >>
    ELSE << >>

\* (Reverse(e.0), Reverse(e.1)) < of the skim branch's sort key.
SkimKeyLess(e, f) ==
    e.score > f.score \/ (e.score = f.score /\ e.coverage > f.coverage)

\* The scored entries in no particular order: the sort left out.
SkimUnsorted(scored) ==
    LET n == Cardinality(scored) IN
    { s \in [1..n -> scored] : \A i, j \in 1..n : i # j => s[i] # s[j] }

\* Every order sort_unstable_by_key may leave the scored entries in: sorted by
\* the key, entries with equal keys in any order.
SkimSorted(scored) ==
    LET n == Cardinality(scored) IN
    { s \in [1..n -> scored] :
        /\ \A i, j \in 1..n : i # j => s[i] # s[j]
        /\ \A i, j \in 1..n : i < j => ~SkimKeyLess(s[j], s[i]) }

\* Whether q occurs in name from position i on.
OccursAt(name, q, i) ==
    i + Len(q) - 1 <= Len(name) /\ SubSeq(name, i, i + Len(q) - 1) = q

\* The first position q occurs at in name, 0 when it does not occur.
FirstOccurrence(name, q) ==
    IF \E i \in 1..Len(name) : OccursAt(name, q, i)
    THEN CHOOSE i \in 1..Len(name) :
            OccursAt(name, q, i) /\ \A j \in 1..(i - 1) : ~OccursAt(name, q, j)
    ELSE 0

\* Fuse::search with threshold 0.4: << >> for None, else the match, with the
\* score times 512 and the summed length of the matched ranges.  The pattern
\* matches where it occurs, or, with one error, where all but its last
\* character occurs (one error in a pattern of three characters or more is
\* within the threshold); the score grows with the errors and with the
\* distance of the match from the start of the name.
FuseSearch(name, query) ==
    LET exact == FirstOccurrence(name, query)
        short == SubSeq(query, 1, Len(query) - 1)
        near == IF Len(query) >= 3 THEN FirstOccurrence(name, short) ELSE 0
    IN  IF exact # 0
        THEN << [score |-> ((exact - 1) * 512) \div 100, matched |-> Len(query)] >>
        ELSE IF near # 0
        THEN << [score |-> 512 \div Len(query) + ((near - 1) * 512) \div 100,
                 matched |-> Len(short)] >>
        ELSE << >>

\* The fuse branch's filter_map without its test of the lengths.
FuseEntryAnyLength(x, query) ==
    IF FuseSearch(x.name, query) # << >>
    THEN LET result == FuseSearch(x.name, query)[1] IN
         << [score |-> result.score,
             coverage |-> (Len(x.name) * 512 - result.matched * 512) \div Len(x.name),
             entry |-> x] >>
    ELSE << >>

\* The fuse branch's filter_map: << >> for None, else <<(score, coverage, entry)>>.
FuseEntry(x, query) ==
    IF Len(query) <= Len(x.name) /\ FuseSearch(x.name, query) # << >>
    THEN LET result == FuseSearch(x.name, query)[1] IN
         << [score |-> result.score,
             coverage |-> (Len(x.name) * 512 - result.matched * 512) \div Len(x.name),
             entry |-> x] >>
    ELSE << >>

\* (e.0, e.1) < of the fuse branch's sort key.
FuseKeyLess(e, f) ==
    e.score < f.score \/ (e.score = f.score /\ e.coverage < f.coverage)

\* Every order the fuse branch's sort_unstable_by_key may leave the scored
\* entries in.
FuseSorted(scored) ==
    LET n == Cardinality(scored) IN
    { s \in [1..n -> scored] :
        /\ \A i, j \in 1..n : i # j => s[i] # s[j]
        /\ \A i, j \in 1..n : i < j => ~FuseKeyLess(s[j], s[i]) }

\* The closure handed to par_extend: a ranked entry as a LauncherResult.
EntryResult(r) ==
    IF r.file_type = "App" THEN AppResult(r.full_path)
    ELSE IF r.file_type = "Bin" THEN BinResult(r.full_path)
    ELSE FileResult(r.full_path)

\* The kinds Cache::search has a branch for.
SearchKinds == {"skim", "fuse"}

\* Whether Cache::search ends in panic!("Invalid kind").
SearchPanics(kind) == kind \notin SearchKinds

\* Cache::search without its cut at results_len.
SearchWholeRanking(cache, query, config) ==
    LET kind == config.fuzzy_engine
        sorted ==
            IF kind = "skim"
            THEN SkimSorted({ SkimEntry(x, query)[1] :
                    x \in { y \in cache.file_entries : SkimEntry(y, query) # << >> } })
            ELSE IF kind = "fuse"
            THEN FuseSorted({ FuseEntry(x, query)[1] :
                    x \in { y \in cache.file_entries : FuseEntry(y, query) # << >> } })
            ELSE {}
    IN  { [i \in 1..Len(s) |-> EntryResult(s[i].entry)] : s \in sorted }

\* Cache::search: every result vector it may return (none when it panics).
Search(cache, query, config) ==
    LET kind == config.fuzzy_engine
        sorted ==
            IF kind = "skim"
            THEN SkimSorted({ SkimEntry(x, query)[1] :
                    x \in { y \in cache.file_entries : SkimEntry(y, query) # << >> } })
            ELSE IF kind = "fuse"
            THEN FuseSorted({ FuseEntry(x, query)[1] :
                    x \in { y \in cache.file_entries : FuseEntry(y, query) # << >> } })
            ELSE {}
    IN  { LET end_index == IF Len(s) < config.results_len THEN Len(s)
                           ELSE config.results_len
          IN  [i \in 1..end_index |-> EntryResult(s[i].entry)] : s \in sorted }

\* ------------------------------------------------------------ Query
HTTP == <<"h", "t", "t", "p", ":", "/", "/">>
HTTPS == <<"h", "t", "t", "p", "s", ":", "/", "/">>

\* fix_url without its test of the prefixes.
FixUrlAlways(url) == HTTP \o url

\* Query::fix_url
FixUrl(url) ==
    IF ~StartsWith(url, HTTP) /\ ~StartsWith(url, HTTPS) THEN HTTP \o url ELSE url

\* Queries shorter than this are fuzzy searched.
ShortQueryLen == 15

FIND == <<"f", "i", "n", "d">>
CONFIG == <<"c", "o", "n", "f", "i", "g">>
SEARCH == <<"s", "e", "a", "r", "c", "h">>

\* LauncherResult::prerun_command
PrerunCommand(r) ==
    IF r.tag = "Command"
    THEN IF r.a = FIND THEN << >>
         ELSE IF r.a = CONFIG THEN << FileResult(CONFIG_PATH) >>
         ELSE << r >>
    ELSE << r >>

\* The command branch with the remainder split as it stands: no trim of the
\* remainder, of the command or of the argument.
ParseCommandUntrimmed(query) ==
    LET stripped == Tail(query)
        sp == FirstIndex(stripped, SP)
    IN  IF sp # 0
        THEN PrerunCommand(Command(SubSeq(stripped, 1, sp - 1),
                                   SubSeq(stripped, sp + 1, Len(stripped))))
        ELSE PrerunCommand(Command(stripped, << >>))

\* The command branch of Query::parse: the result list of a query that starts
\* with ':'.
ParseCommand(query) ==
    LET stripped == Trim(Tail(query))
        sp == FirstIndex(stripped, SP)
    IN  IF sp # 0
        THEN PrerunCommand(Command(Trim(SubSeq(stripped, 1, sp - 1)),
                                   Trim(SubSeq(stripped, sp + 1, Len(stripped)))))
        ELSE PrerunCommand(Command(Trim(Tail(query)), << >>))

\* The result list of the search branch with the Url result pushed before the
\* path checks.
ParseSearchUrlFirst(query, fuzzy, host_ok) ==
    LET relative == HOME_PATH \o <<SLASH>> \o query IN
    fuzzy
        \o (IF host_ok THEN << Url(FixUrl(query)) >> ELSE << >>)
        \o (IF PathExists(query) THEN << FileResult(query) >> ELSE << >>)
        \o (IF PathExists(relative) THEN << FileResult(relative) >> ELSE << >>)
        \o << Command(SEARCH, query) >>

\* The search branch of Query::parse, given the host lookup's answer and the
\* vector Cache::search returned.
ParseSearch(query, fuzzy, host_ok) ==
    LET relative == HOME_PATH \o <<SLASH>> \o query IN
    fuzzy
        \o (IF PathExists(query) THEN << FileResult(query) >> ELSE << >>)
        \o (IF PathExists(relative) THEN << FileResult(relative) >> ELSE << >>)
        \o (IF host_ok THEN << Url(FixUrl(query)) >> ELSE << >>)
        \o << Command(SEARCH, query) >>

\* What Query::parse returns without having searched: the delta, no work done.
Returned(delta) == [delta |-> delta, did |-> {}, fuzzy |-> << >>, panicked |-> FALSE]

\* The search branch of Query::parse with the ranking done for a query of any
\* length.
SearchOutcomesRankAlways(query, config, cache) ==
    IF SearchPanics(config.fuzzy_engine)
    THEN { [delta |-> CacheNew, did |-> {"host", "rank"}, fuzzy |-> << >>,
            panicked |-> TRUE] }
    ELSE { [delta |-> AddResults(CacheNew, query, ParseSearch(query, fuzzy, host_ok)),
            did |-> {"host", "path", "rank"},
            fuzzy |-> fuzzy,
            panicked |-> FALSE] :
             fuzzy \in Search(cache, query, config),
             host_ok \in LookupHost(query) }

\* Every outcome of the search branch of Query::parse: the host lookup is
\* started, a query shorter than ShortQueryLen is ranked (where an unknown
\* kind panics), the paths are checked, the lookup is joined.
SearchOutcomes(query, config, cache) ==
    IF Len(query) < ShortQueryLen /\ SearchPanics(config.fuzzy_engine)
    THEN { [delta |-> CacheNew, did |-> {"host", "rank"}, fuzzy |-> << >>,
            panicked |-> TRUE] }
    ELSE { [delta |-> AddResults(CacheNew, query, ParseSearch(query, fuzzy, host_ok)),
            did |-> {"host", "path"}
                      \cup (IF Len(query) < ShortQueryLen THEN {"rank"} ELSE {}),
            fuzzy |-> fuzzy,
            panicked |-> FALSE] :
             fuzzy \in (IF Len(query) < ShortQueryLen
                        THEN Search(cache, query, config) ELSE { << >> }),
             host_ok \in LookupHost(query) }

\* Query::parse without its early return for a memoized query.
ParseNoMemoCheck(self, config, cache) ==
    LET query == Trim(self) IN
    IF query = << >> THEN { Returned(CacheNew) }
    ELSE IF Head(query) = ":"
    THEN { Returned(AddResults(CacheNew, query, ParseCommand(query))) }
    ELSE SearchOutcomes(query, config, cache)

\* Query::parse: every outcome of one call. delta is the Cache returned; did
\* records the work the call performed (ranking, path checks, host lookup),
\* fuzzy the vector Cache::search returned, panicked whether the call ended in
\* a panic instead of returning.
Parse(self, config, cache) ==
    LET query == Trim(self) IN
    IF query = << >> THEN { Returned(CacheNew) }
    ELSE IF GetResults(cache, query) # << >> THEN { Returned(CacheNew) }
    ELSE IF Head(query) = ":"
    THEN { Returned(AddResults(CacheNew, query, ParseCommand(query))) }
    ELSE SearchOutcomes(query, config, cache)

\* ------------------------------------------------------------ the reference merge
\* The merge of a delta into the shared cache as the design states it: the
\* entries are united, and a query of the delta is inserted only when the
\* shared result map does not memoize it yet.  Only the history variables
\* below use it, to say what the cache would hold had every delta been merged.
RefMerge(shared, delta) ==
    [file_entries |-> shared.file_entries \cup delta.file_entries,
     search_results |->
        [q \in DOMAIN shared.search_results \cup DOMAIN delta.search_results |->
            IF q \in DOMAIN shared.search_results THEN shared.search_results[q]
            ELSE delta.search_results[q]]]

\* The history of a run in which nothing was stored yet.
NoHistory == [deltas |-> << >>, over |-> FALSE]

\* The history after one more delta was stored.
Record(h, delta) ==
    IF h.over \/ Len(h.deltas) = MaxHistory
    THEN [deltas |-> << >>, over |-> TRUE]
    ELSE [h EXCEPT !.deltas = Append(@, delta)]

\* The index with the first k recorded deltas merged into it, in order.
RECURSIVE MergedPrefix(_, _, _)
MergedPrefix(index, deltas, k) ==
    IF k = 0 THEN index
    ELSE RefMerge(MergedPrefix(index, deltas, k - 1), deltas[k])

\* ------------------------------------------------------------ the program state
VARIABLES
    cache,      \* the Cache inside the shared Arc<Mutex<Cache>>
    lock,       \* who holds the Mutex: "free", "backend" or a task
    bpc,        \* the backend thread's position
    queue,      \* the strings in flight from query_tx to query_rx
    tasks,      \* the resolution threads: position, s, inner, new_cache; memo_hit,
                \* did and fuzzy are history: whether inner memoized the query,
                \* the work parse performed, the vector Cache::search returned
    upc,        \* the UI loop's position; "done" once the process has ended
    query,      \* App::query
    results,    \* the UI loop's `results`
    would_block, \* whether this tick's try_lock() gave Err(WouldBlock)
    hist,       \* history: the deltas stored so far, in the order their threads
                \* took the lock (the first MaxHistory of them)
    config,     \* the Config read at startup
    keys,       \* the keys the user of this run presses
    selected,   \* App::list_state.selected(): << >> for None, <<i>> for Some(i)
    index,      \* the UI loop's `index`
    select_q,   \* the results in flight from select_tx to select_rx
    sel,        \* the selection thread: position and the result it received
    launched,   \* history: the results exec_process was called for
    cursor_index,       \* App::cursor_index
    completion,         \* App::completion
    completion_content, \* App::completion_content: << >> for None, <<s>> for Some(s)
    words       \* the texts the user of this run types towards

vars == <<cache, lock, bpc, queue, tasks, upc, query, results, would_block, hist,
          config, keys, selected, index, select_q, sel, launched,
          cursor_index, completion, completion_content, words>>

\* What is fixed when the program starts.
setup == <<config, keys, words>>

\* The fields of App that wait_input edits beside the query and the selection.
editing == <<cursor_index, completion, completion_content>>

\* The variables of the selection and of the committing of a result.
choice == <<selected, index, select_q, sel, launched, editing>>

\* The values of lock.
Unlocked == [holder |-> "free", id |-> 0]
HeldByBackend == [holder |-> "backend", id |-> 0]
HeldByTask(t) == [holder |-> "task", id |-> t]

\* The characters the user types.
TypedChars == {"a", SP}

\* The events wait_input meets: the poll's timeout and the key presses.
KeyNone == [code |-> "None", ch |-> ""]
KeyChar(c) == [code |-> "Char", ch |-> c]
KeyBackspace == [code |-> "Backspace", ch |-> ""]
KeyUp == [code |-> "Up", ch |-> ""]
KeyDown == [code |-> "Down", ch |-> ""]
KeyEnter == [code |-> "Enter", ch |-> ""]
KeyCtrlC == [code |-> "CtrlC", ch |-> ""]
KeyLeft == [code |-> "Left", ch |-> ""]
KeyRight == [code |-> "Right", ch |-> ""]
KeyTab == [code |-> "Tab", ch |-> ""]
KeyEsc == [code |-> "Esc", ch |-> ""]

\* The texts a user who types freely types towards: every text of MaxQueryLen
\* typed characters.
TypedWords == [1..MaxQueryLen -> TypedChars]

\* The keys of a user who edits the query.
TypingKeys == {KeyNone, KeyBackspace} \cup { KeyChar(c) : c \in TypedChars }

\* The keys of a user who types, moves the selection and commits or quits.
SelectKeys == {KeyNone, KeyChar("a"), KeyUp, KeyDown, KeyTab, KeyEnter, KeyCtrlC}

Tasks == 1..MaxTasks

IdleTask == [pc |-> "idle", s |-> << >>, inner |-> CacheNew, new_cache |-> CacheNew,
             memo_hit |-> FALSE, did |-> {}, fuzzy |-> << >>]

\* The selection thread blocked in select_rx.recv().
SelWaiting == [pc |-> "recv", r |-> << >>, ret |-> "", failed |-> FALSE]

\* main, up to the spawning of the threads, with configuration c read and a
\* user who presses the keys ks, typing towards the texts ws.
StartTyping(c, ks, ws) ==
    /\ cache = CacheNew
    /\ lock = Unlocked
    /\ bpc = "init"
    /\ queue = << >>
    /\ tasks = [t \in Tasks |-> IdleTask]
    /\ upc = "send"
    /\ query = << >>
    /\ results = << >>
    /\ would_block = FALSE
    /\ hist = NoHistory
    /\ config = c
    /\ keys = ks
    /\ selected = << >>
    /\ index = << >>
    /\ select_q = << >>
    /\ sel = SelWaiting
    /\ launched = << >>
    /\ cursor_index = 0
    /\ completion = FALSE
    /\ completion_content = << >>
    /\ words = ws

\* The same with a user who types freely.
Start(c, ks) == StartTyping(c, ks, TypedWords)

Init == Start(Config, TypingKeys)

\* The process is alive: main has not returned or panicked and no exec has
\* replaced it.
Running == upc \notin {"done", "panic"}

\* ------------------------------------------------------------ backend thread
\* mutex!(backend_cache = Cache::init(&config)), first half: the assigned value
\* is evaluated before the assignee, so the index is built before lock().
BackendBuild ==
    /\ Running
    /\ bpc = "init"
    /\ bpc' = "built"
    /\ UNCHANGED <<cache, lock, queue, tasks, upc, query, results, would_block, hist,
                   setup, choice>>

\* backend_cache.lock() of the mutex! statement.
BackendLock ==
    /\ Running
    /\ bpc = "built"
    /\ lock = Unlocked
    /\ lock' = HeldByBackend
    /\ bpc' = "install"
    /\ UNCHANGED <<cache, queue, tasks, upc, query, results, would_block, hist,
                   setup, choice>>

\* The assignment of the mutex! statement and the drop of its guard.
BackendInstall ==
    /\ Running
    /\ bpc = "install"
    /\ cache' = CacheInit(config)
    /\ lock' = Unlocked
    /\ bpc' = "recv"
    /\ UNCHANGED <<queue, tasks, upc, query, results, would_block, hist, setup, choice>>

\* One turn of the backend loop: query_rx.recv(), and thread::spawn when the
\* string is not empty.
BackendRecv ==
    /\ Running
    /\ bpc = "recv"
    /\ queue # << >>
    /\ LET s == Head(queue) IN
        IF s # << >>
        THEN \E t \in Tasks :
                /\ tasks[t].pc = "idle"
                /\ tasks' = [tasks EXCEPT ![t] = [IdleTask EXCEPT !.pc = "lock_clone", !.s = s]]
        ELSE tasks' = tasks
    /\ queue' = Tail(queue)
    /\ UNCHANGED <<cache, lock, bpc, upc, query, results, would_block, hist,
                   setup, choice>>

\* ------------------------------------------------------------ resolution thread
\* backend_cache.lock() of `let inner = ...`.
TaskLockClone(t) ==
    /\ Running
    /\ tasks[t].pc = "lock_clone"
    /\ lock = Unlocked
    /\ lock' = HeldByTask(t)
    /\ tasks' = [tasks EXCEPT ![t].pc = "clone"]
    /\ UNCHANGED <<cache, bpc, queue, upc, query, results, would_block, hist,
                   setup, choice>>

\* The clone with a guard that lives on to the end of the block, over the parse.
TaskCloneKeepingGuard(t) ==
    /\ Running
    /\ tasks[t].pc = "clone"
    /\ tasks' = [tasks EXCEPT ![t].pc = "parse", ![t].inner = cache]
    /\ UNCHANGED <<cache, lock, bpc, queue, upc, query, results, would_block, hist,
                   setup, choice>>

\* .clone() of `let inner = ...`; the guard is dropped at the end of the statement.
TaskClone(t) ==
    /\ Running
    /\ tasks[t].pc = "clone"
    /\ tasks' = [tasks EXCEPT ![t].pc = "parse", ![t].inner = cache]
    /\ lock' = Unlocked
    /\ UNCHANGED <<cache, bpc, queue, upc, query, results, would_block, hist,
                   setup, choice>>

\* Query::from(s.as_str()).parse(&config, inner).unwrap(); inner is moved into
\* the call and dropped by it.  A call that panics leaves the thread unwinding.
TaskParse(t) ==
    /\ Running
    /\ tasks[t].pc = "parse"
    /\ \E out \in Parse(tasks[t].s, config, tasks[t].inner) :
          tasks' = [tasks EXCEPT ![t].pc = IF out.panicked THEN "panic" ELSE "lock_store",
                                 ![t].new_cache = out.delta,
                                 ![t].did = out.did,
                                 ![t].fuzzy = out.fuzzy,
                                 ![t].memo_hit =
                                    GetResults(tasks[t].inner, Trim(tasks[t].s)) # << >>,
                                 ![t].inner = CacheNew]
    /\ UNCHANGED <<cache, lock, bpc, queue, upc, query, results, would_block, hist,
                   setup, choice>>

\* The end of a thread that panicked in Query::parse: it holds no lock and
\* stores nothing; the other threads go on.
TaskPanic(t) ==
    /\ Running
    /\ tasks[t].pc = "panic"
    /\ tasks' = [tasks EXCEPT ![t] = IdleTask]
    /\ UNCHANGED <<cache, lock, bpc, queue, upc, query, results, would_block, hist,
                   setup, choice>>

\* backend_cache.lock() of `*backend_cache.lock().unwrap() = new_cache`.
TaskLockStore(t) ==
    /\ Running
    /\ tasks[t].pc = "lock_store"
    /\ lock = Unlocked
    /\ lock' = HeldByTask(t)
    /\ tasks' = [tasks EXCEPT ![t].pc = "store"]
    /\ UNCHANGED <<cache, bpc, queue, upc, query, results, would_block, hist,
                   setup, choice>>

\* What `*backend_cache.lock().unwrap() = new_cache` leaves in the shared cache.
Store(shared, new_cache) == new_cache

\* The assignment `*backend_cache.lock().unwrap() = new_cache`, the drop of the
\* guard and the end of the thread.
TaskStore(t) ==
    /\ Running
    /\ tasks[t].pc = "store"
    /\ cache' = Store(cache, tasks[t].new_cache)
    /\ lock' = Unlocked
    /\ hist' = Record(hist, tasks[t].new_cache)
    /\ tasks' = [tasks EXCEPT ![t] = IdleTask]
    /\ UNCHANGED <<bpc, queue, upc, query, results, would_block, setup, choice>>

\* ------------------------------------------------------------ UI loop
\* query_tx.send(app.get_query())
UISend ==
    /\ upc = "send"
    /\ Len(queue) < MaxQueue
    /\ queue' = Append(queue, query)
    /\ upc' = "read"
    /\ UNCHANGED <<cache, lock, bpc, tasks, query, results, would_block, hist,
                   setup, choice>>

\* The read with cache.lock() in place of cache.try_lock(): it waits for the lock.
UIReadWaiting ==
    /\ upc = "read"
    /\ lock = Unlocked
    /\ results' = (IF GetResults(cache, query) # << >>
                   THEN GetResults(cache, query)[1] ELSE results)
    /\ would_block' = FALSE
    /\ upc' = "input"
    /\ UNCHANGED <<cache, lock, bpc, queue, tasks, query, hist, setup, choice>>

\* `results = match cache.try_lock() { ... }`: the guard lives for the Ok arm only.
UIRead ==
    /\ upc = "read"
    /\ IF lock = Unlocked
       THEN results' = (IF GetResults(cache, query) # << >>
                        THEN GetResults(cache, query)[1] ELSE results)
       ELSE results' = results
    /\ would_block' = (lock # Unlocked)
    /\ upc' = "input"
    /\ UNCHANGED <<cache, lock, bpc, queue, tasks, query, hist, setup, choice>>

\* App::fix_selection
FixSelection(state, list_len) ==
    IF list_len > 0
    THEN IF state = << >> THEN << 0 >>
         ELSE IF state[1] >= list_len THEN << list_len - 1 >>
         ELSE state
    ELSE << >>

\* move_selection! without the wrap at the ends of the list.
MoveSelectionUnwrapped(state, list_len, dir) ==
    IF list_len > 0 /\ state # << >>
    THEN << state[1] + dir >>
    ELSE state

\* move_selection! of wait_input
MoveSelection(state, list_len, dir) ==
    IF list_len > 0 /\ state # << >>
    THEN LET i == state[1] + dir IN
         << IF i < 0 THEN list_len - 1 ELSE i % list_len >>
    ELSE state

\* LauncherResult::get_string
GetString(r) ==
    IF r.tag = "Command"
    THEN <<"C", "m", "d", SP, SP, "|", SP, ":">> \o r.a \o <<SP>> \o r.b
    ELSE IF r.tag = "Url" THEN <<"U", "r", "l", SP, SP, "|", SP>> \o r.a
    ELSE IF r.tag = "App" THEN <<"A", "p", "p", SP, SP, "|", SP>> \o r.a
    ELSE IF r.tag = "Bin" THEN <<"B", "i", "n", SP, SP, "|", SP>> \o r.a
    ELSE <<"F", "i", "l", "e", SP, "|", SP>> \o r.a

\* update's completion text of a result: get_string().split_once('|').unwrap().1.trim()
CompletionText(r) ==
    LET line == GetString(r) IN
    Trim(SubSeq(line, FirstIndex(line, "|") + 1, Len(line)))

\* The fields of App that update and wait_input read and write.
AppState(q, cursor, state, list_len, compl, content) ==
    [query |-> q, cursor_index |-> cursor, selected |-> state, list_len |-> list_len,
     completion |-> compl, completion_content |-> content]

\* App::replace_query
ReplaceQuery(app) ==
    IF app.completion_content # << >>
    THEN [app EXCEPT !.query = app.completion_content[1],
                     !.cursor_index = Len(app.completion_content[1]),
                     !.completion = FALSE]
    ELSE app

\* wait_input's arm of the key: App after the event.
WaitInput(app, key) ==
    IF key.code = "Char"
    THEN LET r == ReplaceQuery(app) IN
         [r EXCEPT !.query =
                      IF r.cursor_index = Len(r.query) THEN Append(r.query, key.ch)
                      ELSE SubSeq(r.query, 1, r.cursor_index) \o <<key.ch>>
                              \o SubSeq(r.query, r.cursor_index + 1, Len(r.query)),
                   !.cursor_index = @ + 1]
    ELSE IF key.code = "Backspace"
    THEN IF app.cursor_index > 0
         THEN [app EXCEPT !.completion = FALSE,
                          !.query = SubSeq(app.query, 1, app.cursor_index - 1)
                                      \o SubSeq(app.query, app.cursor_index + 1,
                                                Len(app.query)),
                          !.cursor_index = @ - 1]
         ELSE [app EXCEPT !.completion = FALSE]
    ELSE IF key.code = "Up"
    THEN [app EXCEPT !.selected = MoveSelection(@, app.list_len, -1)]
    ELSE IF key.code = "Down"
    THEN [app EXCEPT !.selected = MoveSelection(@, app.list_len, 1)]
    ELSE IF key.code = "Left"
    THEN LET r == ReplaceQuery(app) IN
         [r EXCEPT !.cursor_index = IF @ > 0 THEN @ - 1 ELSE @]
    ELSE IF key.code = "Right"
    THEN LET r == ReplaceQuery(app) IN
         [r EXCEPT !.cursor_index = IF @ < Len(r.query) THEN @ + 1 ELSE @]
    ELSE IF key.code = "Tab"
    THEN [app EXCEPT !.completion = app.list_len > 0,
                     !.selected = MoveSelection(@, app.list_len, 1)]
    ELSE app

\* wait_input: what it leaves in *index.
KeyIndex(state, key) == IF key.code = "Enter" THEN state ELSE << >>

\* wait_input: whether it returns Ok(true).
KeyExits(state, key) ==
    key.code = "CtrlC" \/ (key.code = "Enter" /\ state # << >>)

\* Whether update panics while drawing: under completion it indexes the list
\* with list_state.selected().unwrap(), and fix_selection has left None when
\* the list is empty.
UpdatePanics(compl, fixed) == compl /\ fixed = << >>

\* Whether the user types the text q: it begins one of the texts of `words`.
Types(q) == \E w \in words : StartsWith(w, q)

\* app.update(&results)?.wait_input(&mut index) and the branch on its answer:
\* the list is drawn and the selection fixed; then the poll times out or a key
\* is handled, after any Esc presses, which clear completion and let the loop
\* of wait_input go on; on Ok(true) the UI sends the chosen result, if there
\* is one, and goes to join the selection thread, else main returns.  A panic
\* in update ends main.
UIInput ==
    /\ upc = "input"
    /\ LET list == IF query = << >> THEN << >> ELSE results
           list_len == Len(list)
           fixed == FixSelection(selected, list_len)
       IN  IF UpdatePanics(completion, fixed)
           THEN /\ upc' = "panic"
                /\ selected' = fixed
                /\ UNCHANGED <<query, index, select_q, editing>>
           ELSE \E key \in keys \ {KeyEsc} :
                \E esc \in (IF KeyEsc \in keys THEN BOOLEAN ELSE {FALSE}) :
                  LET content == IF completion
                                 THEN << CompletionText(list[fixed[1] + 1]) >>
                                 ELSE << >>
                      drawn == AppState(query, cursor_index, fixed, list_len,
                                        completion, content)
                  IN  \E app \in { WaitInput(IF esc THEN [drawn EXCEPT !.completion = FALSE]
                                               ELSE drawn, key) } :
                      /\ key.code = "Char" => Types(app.query)
                      /\ query' = app.query
                      /\ cursor_index' = app.cursor_index
                      /\ selected' = app.selected
                      /\ completion' = app.completion
                      /\ completion_content' = app.completion_content
                      /\ index' = KeyIndex(fixed, key)
                      /\ IF KeyExits(fixed, key)
                         THEN IF KeyIndex(fixed, key) # << >>
                              THEN /\ select_q' = Append(select_q, results[fixed[1] + 1])
                                   /\ upc' = "join"
                              ELSE /\ select_q' = select_q
                                   /\ upc' = "done"
                         ELSE /\ select_q' = select_q
                              /\ upc' = "send"
    /\ would_block' = FALSE
    /\ UNCHANGED <<cache, lock, bpc, queue, tasks, results, hist, setup, sel, launched>>

\* selection.join().unwrap() and the return of main; the unwrap panics when
\* the selection thread has panicked.
UIJoin ==
    /\ upc = "join"
    /\ sel.pc \in {"done", "panic"}
    /\ upc' = IF sel.pc = "panic" THEN "panic" ELSE "done"
    /\ UNCHANGED <<cache, lock, bpc, queue, tasks, query, results, would_block, hist,
                   setup, choice>>

\* ------------------------------------------------------------ selection thread
\* select_rx.recv() giving Ok(r).
SelectionRecv ==
    /\ Running
    /\ sel.pc = "recv"
    /\ select_q # << >>
    /\ sel' = [SelWaiting EXCEPT !.pc = "select", !.r = << Head(select_q) >>]
    /\ select_q' = Tail(select_q)
    /\ UNCHANGED <<cache, lock, bpc, queue, tasks, upc, query, results, would_block,
                   hist, setup, selected, index, launched, editing>>

EXEC == <<"e", "x", "e", "c">>
UPDATE == <<"u", "p", "d", "a", "t", "e">>

\* magic_cookie.file(path): the answers it may give.  A path that does not
\* exist gives Err; a file that exists gives a description that names a text
\* format or one that does not, or Err when it cannot be read.
MagicFile(path) ==
    IF PathExists(path) THEN {"text", "data", "Err"} ELSE {"Err"}

\* LauncherResult::select up to its call of exec_process: whether it calls
\* exec_process, and how it ends when that call returns (exec_process returns
\* only when the exec failed, and select drops the io::Error it returns).
Select(r) ==
    IF r.tag = "Command"
    THEN IF r.a = SEARCH THEN { [launch |-> TRUE, ret |-> "Ok(false)"] }
         ELSE IF r.a \in {EXEC, UPDATE} THEN { [launch |-> TRUE, ret |-> "Ok(true)"] }
         ELSE { [launch |-> FALSE, ret |-> "Ok(false)"] }
    ELSE IF r.tag = "Bin" THEN { [launch |-> TRUE, ret |-> "Ok(true)"] }
    ELSE IF r.tag = "File"
    THEN { IF m = "Err" THEN [launch |-> FALSE, ret |-> "panic"]
           ELSE [launch |-> TRUE, ret |-> "Ok(false)"] : m \in MagicFile(r.a) }
    ELSE { [launch |-> TRUE, ret |-> "Ok(false)"] }

\* r.select(..) with an exec_process that is tried again when it fails.
SelectionSelectRetrying ==
    /\ Running
    /\ sel.pc = "select"
    /\ \E o \in Select(sel.r[1]) :
       \E replaced \in (IF o.launch THEN BOOLEAN ELSE {FALSE}) :
          /\ launched' = IF o.launch THEN Append(launched, sel.r[1]) ELSE launched
          /\ upc' = IF replaced THEN "done" ELSE upc
          /\ sel' = IF o.launch /\ ~replaced THEN sel
                    ELSE [pc |-> IF o.ret = "panic" THEN "panic" ELSE "done",
                          r |-> << >>,
                          ret |-> IF replaced THEN "" ELSE o.ret,
                          failed |-> o.ret = "panic"]
    /\ UNCHANGED <<cache, lock, bpc, queue, tasks, query, results, would_block, hist,
                   setup, selected, index, select_q, editing>>

\* r.select(&*config, &magic_cookie).unwrap(), the wait for a key it may ask
\* for, and the break.  exec_process replaces the process when it succeeds and
\* returns when it fails; `failed` records that the launch failed, in
\* exec_process or in the check of the file's type.
SelectionSelect ==
    /\ Running
    /\ sel.pc = "select"
    /\ \E o \in Select(sel.r[1]) :
       \E replaced \in (IF o.launch THEN BOOLEAN ELSE {FALSE}) :
          /\ launched' = IF o.launch THEN Append(launched, sel.r[1]) ELSE launched
          /\ upc' = IF replaced THEN "done" ELSE upc
          /\ sel' = [pc |-> IF o.ret = "panic" THEN "panic" ELSE "done",
                     r |-> << >>,
                     ret |-> IF replaced THEN "" ELSE o.ret,
                     failed |-> (o.launch /\ ~replaced) \/ o.ret = "panic"]
    /\ UNCHANGED <<cache, lock, bpc, queue, tasks, query, results, would_block, hist,
                   setup, selected, index, select_q, editing>>

\* ------------------------------------------------------------ the program
\* The steps of a run in which the user edits the query: no result is
\* committed, so the selection thread stays in recv().
Next ==
    \/ BackendBuild
    \/ BackendLock
    \/ BackendInstall
    \/ BackendRecv
    \/ \E t \in Tasks : TaskLockClone(t)
    \/ \E t \in Tasks : TaskClone(t)
    \/ \E t \in Tasks : TaskParse(t)
    \/ \E t \in Tasks : TaskLockStore(t)
    \/ \E t \in Tasks : TaskStore(t)
    \/ UISend
    \/ UIRead
    \/ UIInput

Spec == Init /\ [][Next]_vars

\* ------------------------------------------------------------ committing a result
\* A user who types, moves the selection, and commits a result or quits.
InitSelect == Start(Config, SelectKeys)

NextSelect ==
    \/ Next
    \/ UIJoin
    \/ SelectionRecv
    \/ SelectionSelect

SpecSelect == InitSelect /\ [][NextSelect]_vars

\* ------------------------------------------------------------ the completion preview
\* The text of the command whose prerun gives an empty list.
FindWord == <<":">> \o FIND

\* The keys of a user who types ":find", turns the preview on with Tab and
\* off with Esc.
CompleteKeys ==
    {KeyNone, KeyTab, KeyEsc} \cup { KeyChar(FindWord[i]) : i \in 1..Len(FindWord) }

InitComplete == StartTyping(Config, CompleteKeys, {FindWord})

SpecComplete == InitComplete /\ [][Next]_vars

\* ------------------------------------------------------------ the launch alone
\* Results of every kind: commands run_command knows and one it does not, and
\* files that exist and one that does not.
SampleResults ==
    { Command(SEARCH, <<"a">>), Command(EXEC, <<"a">>), Command(UPDATE, << >>),
      Command(<<"x">>, << >>), Url(HTTP \o <<"a", "a">>),
      AppResult(<<"/", "A", "/", "a", "b">>), BinResult(<<"/", "b", "/", "a">>),
      FileResult(CONFIG_PATH), FileResult(<<"/", "h", "/", "x">>) }

\* The result lists the UI commits from: up to MaxResultsLen sample results.
SampleLists == UNION { [1..n -> SampleResults] : n \in 1..MaxResultsLen }

\* main has sent the result Enter chose and goes to join the selection
\* thread, which waits in recv().
InitLaunch ==
    /\ cache = CacheInit(Config)
    /\ lock = Unlocked
    /\ bpc = "recv"
    /\ queue = << >>
    /\ tasks = [t \in Tasks |-> IdleTask]
    /\ upc = "join"
    /\ query = <<"a">>
    /\ results \in SampleLists
    /\ would_block = FALSE
    /\ hist = NoHistory
    /\ config = Config
    /\ keys = SelectKeys
    /\ \E i \in 0..(MaxResultsLen - 1) :
          /\ i < Len(results)
          /\ selected = << i >>
          /\ index = << i >>
          /\ select_q = << results[i + 1] >>
    /\ sel = SelWaiting
    /\ launched = << >>
    /\ cursor_index = 1
    /\ completion = FALSE
    /\ completion_content = << >>
    /\ words = TypedWords

NextLaunch ==
    \/ SelectionRecv
    \/ SelectionSelect
    \/ UIJoin

SpecLaunch == InitLaunch /\ [][NextLaunch]_vars

\* ------------------------------------------------------------ a query left alone
\* Texts with leading or trailing whitespace around a name.
FixedWords == { <<SP, "a">>, <<"a", SP>> }

\* The keys of a user who types a text and then leaves it as it is.
FixedKeys == {KeyNone} \cup { KeyChar(c) : c \in TypedChars }

InitFixed == StartTyping(Config, FixedKeys, FixedWords)

\* A thread that can take its next step for good is scheduled to take it, and
\* the UI loop comes round every 30 ms.
Fairness ==
    /\ WF_vars(BackendBuild) /\ WF_vars(BackendLock) /\ WF_vars(BackendInstall)
    /\ WF_vars(BackendRecv)
    /\ \A t \in Tasks :
          /\ WF_vars(TaskLockClone(t)) /\ WF_vars(TaskClone(t)) /\ WF_vars(TaskParse(t))
          /\ WF_vars(TaskLockStore(t)) /\ WF_vars(TaskStore(t))
    /\ WF_vars(UISend) /\ WF_vars(UIRead) /\ WF_vars(UIInput)

SpecFixed == InitFixed /\ [][Next]_vars /\ Fairness

\* ------------------------------------------------------------ an unknown kind
\* A configuration whose fuzzy_engine names no branch of Cache::search.
BadKindConfig == [Config EXCEPT !.fuzzy_engine = "fzf"]

InitBadKind == Start(BadKindConfig, TypingKeys)

NextBadKind ==
    \/ Next
    \/ \E t \in Tasks : TaskPanic(t)

SpecBadKind == InitBadKind /\ [][NextBadKind]_vars

\* ------------------------------------------------------------ one resolution alone
\* A query of at least ShortQueryLen characters.
LongQuery == [i \in 1..ShortQueryLen |-> "a"]

\* A path of at least ShortQueryLen characters that exists: $HOME written with
\* a run of '/'.
LongPath == [i \in 1..(ShortQueryLen - 2) |-> SLASH] \o HOME_PATH

\* Query strings a resolution thread is started with.
SampleQueries ==
    { << >>, <<SP>>, <<"a">>, <<SP, "a", SP>>, <<"c">>, <<"a", "a">>,
      <<":">> \o FIND, <<":">> \o CONFIG, <<":", "x", SP, "y">>, <<":">>,
      HOME_PATH, LongQuery,
      <<":", SP>> \o FIND, <<":", "x", SP, SP, "y">>, <<":">> \o CONFIG \o <<SP, "x">>,
      <<":">> \o SEARCH \o <<SP, "a">>,
      LongPath, HTTP \o <<"c">>, HTTPS \o <<"c">>, <<"h", "t", "t", "p">> }

\* Shared caches a resolution thread finds: empty or holding the index, with
\* nothing memoized or with an earlier resolution's list.
SampleCaches ==
    UNION { { base,
              AddResults(base, <<"a">>, << Command(SEARCH, <<"a">>) >>),
              AddResults(base, <<":">> \o FIND, << >>),
              AddResults(base, LongQuery, << Command(SEARCH, LongQuery) >>) } :
            base \in {CacheNew, CacheInit(Config)} }

\* The backend loop has spawned one resolution thread for s.
InitParse ==
    /\ cache \in SampleCaches
    /\ lock = Unlocked
    /\ bpc = "recv"
    /\ queue = << >>
    /\ \E s \in SampleQueries \ {<< >>} :
          tasks = [t \in Tasks |->
                     IF t = 1 THEN [IdleTask EXCEPT !.pc = "lock_clone", !.s = s]
                     ELSE IdleTask]
    /\ upc = "send"
    /\ query = << >>
    /\ results = << >>
    /\ would_block = FALSE
    /\ hist = NoHistory
    /\ config = Config
    /\ keys = TypingKeys
    /\ selected = << >>
    /\ index = << >>
    /\ select_q = << >>
    /\ sel = SelWaiting
    /\ launched = << >>
    /\ cursor_index = 0
    /\ completion = FALSE
    /\ completion_content = << >>
    /\ words = TypedWords

NextParse ==
    \/ \E t \in Tasks : TaskLockClone(t)
    \/ \E t \in Tasks : TaskClone(t)
    \/ \E t \in Tasks : TaskParse(t)
    \/ \E t \in Tasks : TaskLockStore(t)
    \/ \E t \in Tasks : TaskStore(t)

SpecParse == InitParse /\ [][NextParse]_vars

\* ------------------------------------------------------------ two rankings
\* Entries a store may hold: two pairs that tie on every query (the same name
\* under two directories) and a name that matches further in.
RankPool ==
    { FileEntry("Bin", <<"/", "b", "/", "a">>, <<"a">>),
      FileEntry("File", <<"/", "h", "/", "a">>, <<"a">>),
      FileEntry("App", <<"/", "A", "/", "a", "b">>, <<"a", "b">>),
      FileEntry("Bin", <<"/", "b", "/", "a", "b">>, <<"a", "b">>),
      FileEntry("File", <<"/", "h", "/", "b", "a", "b">>, <<"b", "a", "b">>) }

RankCaches == { [CacheNew EXCEPT !.file_entries = es] : es \in SUBSET RankPool }

RankQueries == { <<"a">>, <<"a", "b">>, <<"a", "b", "c">> }

\* Configurations with either kind and a results_len up to MaxResultsLen.
RankConfigs ==
    { [Config EXCEPT !.fuzzy_engine = k, !.results_len = n] :
        k \in SearchKinds, n \in 1..MaxResultsLen }

\* The backend loop has spawned two resolution threads for the same string.
InitRank ==
    /\ cache \in RankCaches
    /\ lock = Unlocked
    /\ bpc = "recv"
    /\ queue = << >>
    /\ \E s \in RankQueries :
          tasks = [t \in Tasks |->
                     IF t <= 2 THEN [IdleTask EXCEPT !.pc = "lock_clone", !.s = s]
                     ELSE IdleTask]
    /\ upc = "send"
    /\ query = << >>
    /\ results = << >>
    /\ would_block = FALSE
    /\ hist = NoHistory
    /\ config \in RankConfigs
    /\ keys = TypingKeys
    /\ selected = << >>
    /\ index = << >>
    /\ select_q = << >>
    /\ sel = SelWaiting
    /\ launched = << >>
    /\ cursor_index = 0
    /\ completion = FALSE
    /\ completion_content = << >>
    /\ words = TypedWords

SpecRank == InitRank /\ [][NextParse]_vars

\* The (score, coverage) the branch of the kind sorts a matching entry by.
RankKey(x, q, kind) ==
    LET e == IF kind = "skim" THEN SkimEntry(x, q)[1] ELSE FuseEntry(x, q)[1]
    IN  << e.score, e.coverage >>

\* ------------------------------------------------------------ the scan alone
\* Directories a configuration may name: readable ones, among them the
\* directory of $PATH, $HOME and one whose children have a '.' in their names,
\* and one that does not exist.
ScanDirs ==
    { <<"/", "A">>, <<"/", "b">>, <<"/", "h">>, <<"/", "D">>, <<"/", "S">> }

\* Configurations with up to MaxLocations app_locations.
ScanConfigs ==
    { [Config EXCEPT !.app_locations = l] :
        l \in UNION { [1..n -> ScanDirs] : n \in 0..MaxLocations } }

InitScan == \E c \in ScanConfigs : Start(c, TypingKeys)

NextScan ==
    \/ BackendBuild
    \/ BackendLock
    \/ BackendInstall

SpecScan == InitScan /\ [][NextScan]_vars

\* ------------------------------------------------------------ properties
\* The backend thread has installed the index built by Cache::init.
Installed == bpc = "recv"

SR(c) == c.search_results

\* The lists a resolution of trim(q) may memoize for it, over the empty store
\* and over the index.
MemoLists(q) ==
    UNION { { SR(o.delta)[Trim(q)] :
                o \in { p \in Parse(q, config, c) : Trim(q) \in DOMAIN SR(p.delta) } } :
            c \in {CacheNew, CacheInit(config)} }

\* C1: once the index is installed, no step removes an entry from the shared
\* cache's file_entries.
C1_IndexNeverShrinks ==
    [][Installed => cache.file_entries \subseteq cache'.file_entries]_vars

\* C2: a query memoized in the shared cache is memoized in the next state too.
C2_MemoizedStaysMemoized ==
    [][\A q \in DOMAIN SR(cache) : q \in DOMAIN SR(cache')]_vars

\* C3: when a thread stores a delta that holds a query the shared cache
\* already memoizes, the shared cache keeps the list it had.
C3_StoreKeepsMemoizedAnswer ==
    [][\A t \in Tasks :
          TaskStore(t) =>
            \A q \in DOMAIN SR(cache) \cap DOMAIN SR(tasks[t].new_cache) :
                q \in DOMAIN SR(cache') /\ SR(cache')[q] = SR(cache)[q]]_vars

\* C4: for the shared cache C and the deltas d1, d2 two threads are about to
\* store, storing d1 then d2, d2 then d1, and d1, d2, d1 leave the same cache.
C4_MergeCommutativeIdempotent ==
    \A t1, t2 \in Tasks :
        (t1 # t2 /\ tasks[t1].pc = "lock_store" /\ tasks[t2].pc = "lock_store") =>
            LET d1 == tasks[t1].new_cache
                d2 == tasks[t2].new_cache
            IN  /\ Store(Store(cache, d1), d2) = Store(Store(cache, d2), d1)
                /\ Store(Store(cache, d2), d1) = Store(Store(Store(cache, d1), d2), d1)

\* C5: once two threads have stored their deltas, the shared cache memoizes
\* every query either delta holds and still holds the whole index.
C5_NoLostUpdate ==
    (Installed /\ ~hist.over /\ Len(hist.deltas) >= 2) =>
        /\ \A i \in 1..Len(hist.deltas) : DOMAIN SR(hist.deltas[i]) \subseteq DOMAIN SR(cache)
        /\ CacheInit(config).file_entries \subseteq cache.file_entries

\* C6: the cache the UI reads under the lock is the installed index with a
\* prefix of the stored deltas merged into it.
C6_UIReadsMergedPrefix ==
    [][(UIRead /\ lock = Unlocked /\ Installed /\ ~hist.over) =>
          \E k \in 0..Len(hist.deltas) :
              cache = MergedPrefix(CacheInit(config), hist.deltas, k)]_vars

\* C7: the UI's read is enabled whenever the UI is at it, whoever holds the
\* lock, and a read that finds the lock held leaves `results` as it was.
C7_UINeverWaits ==
    [][upc = "read" =>
          /\ ENABLED UIRead
          /\ (UIRead /\ lock # Unlocked) => (results' = results /\ upc' = "input")]_vars

\* C7 witness: a tick found the lock held and went on with the list it showed.
C7_Witness == would_block /\ upc = "input" /\ results # << >>

\* C8: the lock is held only by the backend at its installing assignment or by
\* a thread at its clone or its store, never during Cache::init or Query::parse.
C8_LockOnlyForCloneAndStore ==
    /\ lock.holder \in {"free", "backend", "task"}
    /\ lock = HeldByBackend => bpc = "install"
    /\ \A t \in Tasks : lock = HeldByTask(t) => tasks[t].pc \in {"clone", "store"}
    /\ \A t \in Tasks : tasks[t].pc = "parse" => lock # HeldByTask(t)
    /\ bpc = "init" => lock # HeldByBackend

\* C8 witness: one thread parses while another holds the lock for its store.
C8_Witness ==
    \E t1, t2 \in Tasks :
        tasks[t1].pc = "parse" /\ tasks[t2].pc = "store" /\ lock = HeldByTask(t2)

\* C9: a parse whose snapshot memoizes the trimmed query returns the empty
\* delta and does no ranking, path check or host lookup.
C9_MemoizedGivesEmptyDelta ==
    \A t \in Tasks :
        (tasks[t].pc \in {"lock_store", "store"} /\ tasks[t].memo_hit) =>
            /\ tasks[t].new_cache = CacheNew
            /\ tasks[t].did = {}

\* C9 witness: a parse of a query with surrounding blanks, memoized under its
\* trimmed text in a snapshot that holds the index, has returned.
C9_Witness ==
    \E t \in Tasks :
        /\ tasks[t].pc = "lock_store"
        /\ tasks[t].memo_hit
        /\ tasks[t].s # Trim(tasks[t].s)
        /\ cache.file_entries # {}

\* C10: a thread whose query is empty after trimming, or memoized in its
\* snapshot, holds no memoized list, and its store leaves the shared cache as
\* it was.
C10_NoOpStoreLeavesCache ==
    [][\A t \in Tasks :
          (TaskStore(t) /\ (Trim(tasks[t].s) = << >> \/ tasks[t].memo_hit)) =>
              /\ DOMAIN SR(tasks[t].new_cache) = {}
              /\ cache' = cache]_vars

\* Thread t has returned from a Query::parse that went past the memo check
\* with a query that is not empty after trimming.
Resolved(t) ==
    /\ tasks[t].pc \in {"lock_store", "store"}
    /\ ~tasks[t].memo_hit
    /\ Trim(tasks[t].s) # << >>

\* C11 as stated: a resolved query that starts with ':' is the only key of the
\* delta, bound to the list of its command, the remainder split at its first
\* space with the command and the argument as they stand; no ranking, path
\* check or host lookup is done.
C11_CommandPartsVerbatim ==
    \A t \in Tasks :
        (Resolved(t) /\ Head(Trim(tasks[t].s)) = ":") =>
            LET q == Trim(tasks[t].s)
                rest == Tail(q)
                sp == FirstIndex(rest, SP)
                cmd == IF sp = 0 THEN rest ELSE SubSeq(rest, 1, sp - 1)
                arg == IF sp = 0 THEN << >> ELSE SubSeq(rest, sp + 1, Len(rest))
            IN  /\ DOMAIN SR(tasks[t].new_cache) = {q}
                /\ SR(tasks[t].new_cache)[q] =
                      (IF cmd = FIND THEN << >>
                       ELSE IF cmd = CONFIG THEN << FileResult(CONFIG_PATH) >>
                       ELSE << Command(cmd, arg) >>)
                /\ tasks[t].did = {}

\* C11, amended: a resolved query that starts with ':' is the only key of the
\* delta, bound to the list of its command, where the remainder is trimmed,
\* split at its first space, and the command and the argument are trimmed; the
\* list holds no fuzzy match, path hit, Url or fallback search command, and no
\* ranking, path check or host lookup is done.
C11_CommandPartsTrimmed ==
    \A t \in Tasks :
        (Resolved(t) /\ Head(Trim(tasks[t].s)) = ":") =>
            LET q == Trim(tasks[t].s)
                rest == Trim(Tail(q))
                sp == FirstIndex(rest, SP)
                cmd == IF sp = 0 THEN rest ELSE Trim(SubSeq(rest, 1, sp - 1))
                arg == IF sp = 0 THEN << >> ELSE Trim(SubSeq(rest, sp + 1, Len(rest)))
                list == SR(tasks[t].new_cache)[q]
            IN  /\ DOMAIN SR(tasks[t].new_cache) = {q}
                /\ list = (IF cmd = FIND THEN << >>
                           ELSE IF cmd = CONFIG THEN << FileResult(CONFIG_PATH) >>
                           ELSE << Command(cmd, arg) >>)
                /\ \A i \in 1..Len(list) :
                      /\ list[i].tag \in {"Command", "File"}
                      /\ list[i] # Command(SEARCH, q)
                /\ tasks[t].did = {}
                /\ tasks[t].fuzzy = << >>
                /\ tasks[t].new_cache.file_entries = {}

\* C11 witness: the parse of ":x  y" has returned the single Command("x", "y"),
\* its argument without the blank the split left before it.
C11_Witness ==
    \E t \in Tasks :
        /\ Resolved(t)
        /\ tasks[t].s = <<":", "x", SP, SP, "y">>
        /\ SR(tasks[t].new_cache)[tasks[t].s] = << Command(<<"x">>, <<"y">>) >>
        /\ cache.file_entries # {}

\* C12: the list memoized for a resolved query q that does not start with ':'
\* is the fuzzy block, then File(q) if q exists, then File($HOME/q) if that
\* exists, then Url(fix_url(q)) if the host lookup succeeded, then
\* Command("search", q), in this order and with nothing else.
C12_SearchListOrder ==
    \A t \in Tasks :
        (Resolved(t) /\ Head(Trim(tasks[t].s)) # ":") =>
            LET q == Trim(tasks[t].s)
                list == SR(tasks[t].new_cache)[q]
                home == HOME_PATH \o <<SLASH>> \o q
                rest(host_ok) ==
                    (IF PathExists(q) THEN << FileResult(q) >> ELSE << >>)
                    \o (IF PathExists(home) THEN << FileResult(home) >> ELSE << >>)
                    \o (IF host_ok THEN << Url(FixUrl(q)) >> ELSE << >>)
                    \o << Command(SEARCH, q) >>
            IN  /\ DOMAIN SR(tasks[t].new_cache) = {q}
                /\ \E host_ok \in BOOLEAN :
                      /\ host_ok => q \in DnsNames
                      /\ list = tasks[t].fuzzy \o rest(host_ok)
                /\ list[Len(list)] = Command(SEARCH, q)
                /\ \A i \in 1..Len(tasks[t].fuzzy) :
                      tasks[t].fuzzy[i].tag \in {"App", "Bin", "File"}

\* C12 witness: the parse of "c" has returned a list with all five parts: a
\* fuzzy block, both path hits, the Url and the search command.
C12_Witness ==
    \E t \in Tasks :
        /\ Resolved(t)
        /\ tasks[t].s = <<"c">>
        /\ tasks[t].fuzzy # << >>
        /\ Len(SR(tasks[t].new_cache)[<<"c">>]) = Len(tasks[t].fuzzy) + 4

\* C13: a resolved query that does not start with ':' and has ShortQueryLen
\* characters or more is not ranked: its list has no fuzzy block, and still
\* the paths were checked, the host looked up and the search command added; a
\* shorter one is ranked over the entries of its snapshot, and its list begins
\* with that block.
C13_LongQueryNotRanked ==
    \A t \in Tasks :
        (Resolved(t) /\ Head(Trim(tasks[t].s)) # ":" /\ hist = NoHistory) =>
            LET q == Trim(tasks[t].s)
                list == SR(tasks[t].new_cache)[q]
            IN  IF Len(q) >= ShortQueryLen
                THEN /\ tasks[t].fuzzy = << >>
                     /\ tasks[t].did = {"host", "path"}
                     /\ \A i \in 1..Len(list) : list[i].tag \notin {"App", "Bin"}
                     /\ PathExists(q) => list[1] = FileResult(q)
                     /\ (\E i \in 1..Len(list) : list[i].tag = "Url") => q \in DnsNames
                     /\ list[Len(list)] = Command(SEARCH, q)
                ELSE /\ tasks[t].did = {"host", "path", "rank"}
                     /\ tasks[t].fuzzy \in Search(cache, q, config)
                     /\ SubSeq(list, 1, Len(tasks[t].fuzzy)) = tasks[t].fuzzy

\* C13 witness: the parse of a path of ShortQueryLen characters, against a
\* snapshot that holds the index, has returned File(path) and the search
\* command, and no fuzzy block.
C13_Witness ==
    \E t \in Tasks :
        /\ Resolved(t)
        /\ tasks[t].s = LongPath
        /\ hist = NoHistory
        /\ cache.file_entries # {}
        /\ SR(tasks[t].new_cache)[LongPath] =
              << FileResult(LongPath), Command(SEARCH, LongPath) >>

\* C19: fix_url puts "http://" before a string that starts with neither
\* "http://" nor "https://", gives back a string that starts with one of them,
\* and applied to its own result changes nothing; the Url result of a parse is
\* fix_url of the trimmed query.
C19_FixUrlIdempotent ==
    \A t \in Tasks :
        LET u == Trim(tasks[t].s)
            prefixed == StartsWith(u, HTTP) \/ StartsWith(u, HTTPS)
        IN  /\ prefixed => FixUrl(u) = u
            /\ ~prefixed => FixUrl(u) = HTTP \o u
            /\ FixUrl(FixUrl(u)) = FixUrl(u)
            /\ \A q \in DOMAIN SR(tasks[t].new_cache) :
                  \A i \in 1..Len(SR(tasks[t].new_cache)[q]) :
                      LET r == SR(tasks[t].new_cache)[q][i] IN
                      r.tag = "Url" =>
                          /\ r.a = FixUrl(u)
                          /\ StartsWith(r.a, HTTP) \/ StartsWith(r.a, HTTPS)

\* C19 witness: the parse of "aa", a name the DNS knows, has returned
\* Url("http://aa").
C19_Witness ==
    \E t \in Tasks :
        /\ Resolved(t)
        /\ tasks[t].s = <<"a", "a">>
        /\ \E i \in 1..Len(SR(tasks[t].new_cache)[<<"a", "a">>]) :
              SR(tasks[t].new_cache)[<<"a", "a">>][i] = Url(HTTP \o <<"a", "a">>)

\* Thread t has returned from a Query::parse that ranked its query.
Ranked(t) == Resolved(t) /\ "rank" \in tasks[t].did

\* C14 as stated: two rankings of the same query over the same entries, with
\* the same results_len, return the same set of entries, and two entries both
\* return with different (score, coverage) stand in the same order in both.
C14_SameEntriesEveryRun ==
    \A t1, t2 \in Tasks :
        (/\ t1 # t2 /\ Ranked(t1) /\ Ranked(t2)
         /\ tasks[t1].s = tasks[t2].s /\ hist = NoHistory) =>
            LET q == Trim(tasks[t1].s)
                f1 == tasks[t1].fuzzy
                f2 == tasks[t2].fuzzy
                set1 == { f1[i] : i \in 1..Len(f1) }
                set2 == { f2[i] : i \in 1..Len(f2) }
                Key(r) == RankKey(CHOOSE x \in cache.file_entries : EntryResult(x) = r,
                                  q, config.fuzzy_engine)
                Pos(f, r) == CHOOSE i \in 1..Len(f) : f[i] = r
            IN  /\ set1 = set2
                /\ \A r1, r2 \in set1 \cap set2 :
                      Key(r1) # Key(r2) =>
                          (Pos(f1, r1) < Pos(f1, r2) <=> Pos(f2, r1) < Pos(f2, r2))

\* C14, amended: two rankings of the same query over the same entries, with
\* the same results_len, return blocks of the same length with the same
\* (score, coverage) at each place, so two entries both return with different
\* keys stand in the same order in both; an entry only one of them returns has
\* the key of the last place (it ties with an entry at the results_len cut).
C14_SameKeysEveryRun ==
    \A t1, t2 \in Tasks :
        (/\ t1 # t2 /\ Ranked(t1) /\ Ranked(t2)
         /\ tasks[t1].s = tasks[t2].s /\ hist = NoHistory) =>
            LET q == Trim(tasks[t1].s)
                f1 == tasks[t1].fuzzy
                f2 == tasks[t2].fuzzy
                set1 == { f1[i] : i \in 1..Len(f1) }
                set2 == { f2[i] : i \in 1..Len(f2) }
                Key(r) == RankKey(CHOOSE x \in cache.file_entries : EntryResult(x) = r,
                                  q, config.fuzzy_engine)
                Pos(f, r) == CHOOSE i \in 1..Len(f) : f[i] = r
            IN  /\ Len(f1) = Len(f2)
                /\ \A i \in 1..Len(f1) : Key(f1[i]) = Key(f2[i])
                /\ \A r1, r2 \in set1 \cap set2 :
                      Key(r1) # Key(r2) =>
                          (Pos(f1, r1) < Pos(f1, r2) <=> Pos(f2, r1) < Pos(f2, r2))
                /\ \A r \in set1 \ set2 : Key(r) = Key(f1[Len(f1)])

\* C14 witness: two rankings of the same query over the same entries have
\* returned full blocks that differ in an entry.
C14_Witness ==
    \E t1, t2 \in Tasks :
        /\ t1 # t2 /\ Ranked(t1) /\ Ranked(t2)
        /\ tasks[t1].s = tasks[t2].s /\ hist = NoHistory
        /\ Len(tasks[t1].fuzzy) = config.results_len
        /\ { tasks[t1].fuzzy[i] : i \in 1..Len(tasks[t1].fuzzy) }
              # { tasks[t2].fuzzy[i] : i \in 1..Len(tasks[t2].fuzzy) }

\* C15: no two entries of the installed store have the same full_path.
C15_OneEntryPerPath ==
    Installed =>
        \A x, y \in cache.file_entries : x.full_path = y.full_path => x = y

\* C16: scanning a list of directories under a kind twice leaves the store
\* with the members one scan leaves it with, from the empty store and from the
\* installed one; a second Cache::init scan over the installed store adds nothing.
C16_ScanIdempotent ==
    \A D \in {config.app_locations, ENV_PATH, << HOME_PATH >>} :
        \A k \in {"App", "Bin", "File"} :
            \A c \in {CacheNew, cache} :
                /\ AddDir(AddDir(c, D, k), D, k) = AddDir(c, D, k)
                /\ Installed =>
                      AddDir(AddDir(AddDir(cache, config.app_locations, "App"),
                                    ENV_PATH, "Bin"),
                             << HOME_PATH >>, "File") = cache

\* C16 witness: the installed store was built from app_locations that name a
\* readable directory twice, and holds its entries.
C16_Witness ==
    /\ Installed
    /\ Len(config.app_locations) >= 2
    /\ config.app_locations[1] = config.app_locations[2]
    /\ Readable(config.app_locations[1])
    /\ \E x \in cache.file_entries : x.file_type = "App"

\* C20: the block a ranking returns holds only entries of the snapshot that
\* match the query (under "fuse", only names at least as long as the query),
\* ordered under "skim" by score descending, then coverage descending, and
\* under "fuse" by score ascending, then coverage ascending.
C20_BlockOrderedByKey ==
    \A t \in Tasks :
        (Ranked(t) /\ hist = NoHistory) =>
            LET q == Trim(tasks[t].s)
                f == tasks[t].fuzzy
                kind == config.fuzzy_engine
                Matches(x) ==
                    IF kind = "skim" THEN IsSubseq(q, x.name)
                    ELSE Len(q) <= Len(x.name) /\ FuseSearch(x.name, q) # << >>
                Entry(r) == CHOOSE x \in cache.file_entries : EntryResult(x) = r
                Key(r) == RankKey(Entry(r), q, kind)
            IN  /\ kind \in {"skim", "fuse"}
                /\ \A i \in 1..Len(f) :
                      /\ \E x \in cache.file_entries : EntryResult(x) = f[i]
                      /\ Matches(Entry(f[i]))
                /\ \A i, j \in 1..Len(f) :
                      i < j =>
                        IF kind = "skim"
                        THEN \/ Key(f[i])[1] > Key(f[j])[1]
                             \/ Key(f[i])[1] = Key(f[j])[1] /\ Key(f[i])[2] >= Key(f[j])[2]
                        ELSE \/ Key(f[i])[1] < Key(f[j])[1]
                             \/ Key(f[i])[1] = Key(f[j])[1] /\ Key(f[i])[2] <= Key(f[j])[2]

\* C20 witness: a "fuse" ranking of "ab" has returned a block of two entries
\* with different scores, over a snapshot that also holds a shorter name.
C20_Witness ==
    \E t \in Tasks :
        /\ Ranked(t) /\ hist = NoHistory
        /\ config.fuzzy_engine = "fuse"
        /\ tasks[t].s = <<"a", "b">>
        /\ Len(tasks[t].fuzzy) = 2
        /\ \E x \in cache.file_entries : x.name = <<"a">>
        /\ \E x, y \in cache.file_entries :
              /\ tasks[t].fuzzy = << EntryResult(x), EntryResult(y) >>
              /\ FuseEntry(x, <<"a", "b">>)[1].score < FuseEntry(y, <<"a", "b">>)[1].score

\* C17: an unrecognized kind ends the program at startup, before a query is
\* served: no resolution thread ever meets panic!("Invalid kind") while the
\* UI loop is running.
C17_UnknownKindStopsAtStartup ==
    \A t \in Tasks : tasks[t].pc # "panic"

\* C18: exec_process is called for at most one result, and only for the result
\* the UI sent after Enter chose it; the selection thread takes one message
\* and ends after it; when main returns with no result chosen, nothing was
\* sent or launched.
C18_OneLaunchAfterCommit ==
    /\ Len(launched) <= 1
    /\ Len(select_q) + (IF sel.pc = "recv" THEN 0 ELSE 1) <= 1
    /\ (select_q # << >> \/ sel.pc # "recv") =>
          /\ index # << >>
          /\ upc \in {"join", "done"}
    /\ sel.pc = "select" => (launched = << >> /\ sel.r = << results[index[1] + 1] >>)
    /\ launched # << >> =>
          /\ sel.pc = "done"
          /\ launched[1] = results[index[1] + 1]
    /\ (upc = "done" /\ index = << >>) =>
          (launched = << >> /\ select_q = << >> /\ sel = SelWaiting)

\* C18 witness: the user moved the selection down and pressed Enter, the
\* selection thread launched the second result of the list, and main returned.
C18_Witness ==
    /\ upc = "done"
    /\ index = << 1 >>
    /\ sel.pc = "done"
    /\ launched = << results[2] >>

\* C21: the block a ranking returns is the first min(number of matching
\* entries, results_len) places of a ranking of the matching entries (best key
\* first), each entry as the result of its kind (App, Bin, File) with the
\* entry's full_path, in the ranking's order.
C21_BlockIsMappedPrefix ==
    \A t \in Tasks :
        (Ranked(t) /\ hist = NoHistory) =>
            LET q == Trim(tasks[t].s)
                f == tasks[t].fuzzy
                kind == config.fuzzy_engine
                matches ==
                    { x \in cache.file_entries :
                        IF kind = "skim" THEN IsSubseq(q, x.name)
                        ELSE Len(q) <= Len(x.name) /\ FuseSearch(x.name, q) # << >> }
                n == Cardinality(matches)
                Better(x, y) ==
                    LET kx == RankKey(x, q, kind)
                        ky == RankKey(y, q, kind)
                    IN  IF kind = "skim"
                        THEN kx[1] > ky[1] \/ (kx[1] = ky[1] /\ kx[2] > ky[2])
                        ELSE kx[1] < ky[1] \/ (kx[1] = ky[1] /\ kx[2] < ky[2])
            IN  /\ Len(f) = IF n < config.results_len THEN n ELSE config.results_len
                /\ \E s \in [1..n -> matches] :
                      /\ \A i, j \in 1..n : i # j => s[i] # s[j]
                      /\ \A i, j \in 1..n : i < j => ~Better(s[j], s[i])
                      /\ \A i \in 1..Len(f) :
                            /\ f[i].tag = s[i].file_type
                            /\ f[i].a = s[i].full_path
                            /\ f[i].b = << >>

\* C21 witness: a ranking has returned a block cut at results_len, shorter
\* than the matching entries, that holds results of two kinds.
C21_Witness ==
    \E t \in Tasks :
        /\ Ranked(t) /\ hist = NoHistory
        /\ Len(tasks[t].fuzzy) = config.results_len
        /\ config.results_len = 2
        /\ Cardinality({ x \in cache.file_entries : IsSubseq(Trim(tasks[t].s), x.name) }) > 2
        /\ tasks[t].fuzzy[1].tag # tasks[t].fuzzy[2].tag

\* C22: for every readable directory the scan was given, the installed store
\* holds an entry for that directory itself: kind File, the directory's path
\* (with or without a trailing '/') and, as name, the directory's last
\* segment followed by '/'.
C22_EntryForScannedDirectory ==
    Installed =>
        \A D \in {config.app_locations, ENV_PATH, << HOME_PATH >>} :
            \A i \in 1..Len(D) :
                Readable(D[i]) =>
                    \E x \in cache.file_entries :
                        /\ x.file_type = "File"
                        /\ x.full_path \in {D[i], D[i] \o <<SLASH>>}
                        /\ x.name = FileName(D[i]) \o <<SLASH>>

\* C23: in the installed store, a child of a readable app location whose
\* name begins with '.' has no App entry, and every other child has an App
\* entry whose name is the child's file name up to its first '.'.
C23_AppNamesNormalized ==
    Installed =>
        \A i \in 1..Len(config.app_locations) :
            LET location == config.app_locations[i] IN
            Readable(location) =>
                \A n \in FsDirs[location] :
                    LET dot == FirstIndex(n, ".")
                        stem == IF dot = 0 THEN n ELSE SubSeq(n, 1, dot - 1)
                        entries == { x \in cache.file_entries :
                                       /\ x.file_type = "App"
                                       /\ x.full_path = JoinPath(location, n) }
                    IN  IF Head(n) = "." THEN entries = {}
                        ELSE entries # {} /\ \A x \in entries : x.name = stem

\* C25: on every tick of the UI loop, with the list update renders (empty
\* while the query is empty, else the results): the selection update leaves
\* and the selection the key leaves are None exactly when that list is empty,
\* and else an index below its length; and when Enter commits, the index is
\* below the length of that list and the result sent to the selection thread
\* is the element of that list at the index.
C25_CommitWithinRenderedList ==
    [][(upc = "input" /\ upc' # "input") =>
          LET list == IF query = << >> THEN << >> ELSE results
              fixed == FixSelection(selected, Len(list))
              InList(state) ==
                  IF list = << >> THEN state = << >>
                  ELSE state # << >> /\ state[1] \in 0..(Len(list) - 1)
          IN  /\ InList(fixed)
              /\ InList(selected')
              /\ upc' = "join" =>
                    /\ index' # << >>
                    /\ index'[1] \in 0..(Len(list) - 1)
                    /\ select_q' = Append(select_q, list[index'[1] + 1])]_vars

\* C25 witness: the user moved to the last of three results with Tab, the
\* preview on, and committed it with Enter.
C25_Witness ==
    /\ upc = "join"
    /\ completion
    /\ Len(results) = 3
    /\ index = << 2 >>
    /\ select_q = << results[3] >>

\* C26: whenever update renders with completion on, the list it renders is
\* not empty and a selection exists.
C26_PreviewHasSelection ==
    [][(upc = "input" /\ upc' # "input" /\ completion) =>
          LET list == IF query = << >> THEN << >> ELSE results
          IN  list # << >> /\ FixSelection(selected, Len(list)) # << >>]_vars

\* C27: when the launch of the committed result fails (exec_process returns,
\* or the check of a File's type fails), select returns an error value to the
\* selection thread, and neither that thread nor main panics.
C27_LaunchFailureReported ==
    /\ sel.failed => sel.ret = "Err"
    /\ sel.pc # "panic"
    /\ upc # "panic"

\* C24: under fair scheduling, a query text left as it is, with trim(q) not
\* empty, is answered: from some point on the UI displays a list memoized for
\* trim(q).  (The user of SpecFixed only appends characters, so every run's
\* query is fixed from some point on, and a trim(q) that is not empty stays
\* so.)
C24_FixedQueryDisplayed ==
    <>[](Trim(query) # << >>) => <>[](results \in MemoLists(query))
====
